---- MODULE Spec2Model ----
(***************************************************************************)
(* Model of the Gmail autoresponder agent: the numbered MailboxSession     *)
(* (app/utils/mailbox_session.py) and the tool-dispatch loop of GmailAgent *)
(* (app/agents/gmail_agent.py).                                            *)
(*                                                                         *)
(* Python values are encoded as follows.                                   *)
(*   Optional[T]   a set with at most one element: None is {}, x is {x}.   *)
(*   text          a tuple of tokens; the empty string is << >>.           *)
(*   dict[int, T]  a function whose DOMAIN is the key set.                 *)
(***************************************************************************)
EXTENDS Integers, Sequences, FiniteSets, TLC

VARIABLES
    index_map,             \* MailboxSession.index_map {number: gmail id}
    last_draft,            \* MailboxSession.last_draft (Optional text)
    last_number,           \* MailboxSession.last_number (Optional int)
    email_cache,           \* MailboxSession.email_cache {number: {from, subject, body}}
    conversation_history,  \* GmailAgent.conversation_history
    pc,                    \* position of GmailAgent.chat: "idle", "tools", "final"
    tool_calls,            \* chat: tool_calls of the first model response
    tc,                    \* chat: index of the next tool call of the for loop
    turn,                  \* observation of the current (or last) chat turn
    op                     \* observation of the last MailboxSession/tool call

vars == <<index_map, last_draft, last_number, email_cache,
          conversation_history, pc, tool_calls, tc, turn, op>>

mailbox == <<index_map, last_draft, last_number, email_cache>>

-----------------------------------------------------------------------------
(* Bounds of the model.                                                    *)

MaxCalls == 3       \* most tool calls in one model response
MaxHistory == 1     \* a chat turn starts while the history is shorter than this
MaxCallsReset == 2  \* most tool calls in one model response under SpecReset
MaxParts == 2       \* most parts of the payload under SpecBody
MaxReply == 5       \* most tokens of a model reply under SpecDraft
MaxHistoryTurns == 5  \* under SpecTurns a turn starts while the history is shorter

-----------------------------------------------------------------------------
(* Optional values and dictionaries.                                       *)

None == {}
Some(x) == {x}
The(o) == CHOOSE x \in o : TRUE

EmptyDict == << >>
\* d[k] = v, as a new dictionary
DictSet(d, k, v) == [j \in (DOMAIN d) \cup {k} |-> IF j = k THEN v ELSE d[j]]

-----------------------------------------------------------------------------
(* The Mail Capability: the messages of the provider's mailbox. A From   *)
(* header is <<display name, address>> or <<address>>; a subject is a      *)
(* text. A payload is a tree of parts: data is the base64url text of the   *)
(* part's body, one token for each encoded character, << >> when the part  *)
(* has no body data. threadId is an Optional: the last message is in no    *)
(* thread.                                                                 *)

Part(mimeType, data, parts) == [mimeType |-> mimeType, data |-> data, parts |-> parts]

MAILBOX ==
    [m1 |-> [from |-> <<"Ann", "ann@x.org">>, subject |-> <<"Lunch">>,
             payload |-> Part("text/plain", <<"YjE=">>, << >>),
             threadId |-> Some("t1")],
     m2 |-> [from |-> <<"bob@y.org">>, subject |-> <<"Re:", "Invoice">>,
             payload |-> Part("multipart/alternative", << >>,
                              <<Part("text/html", <<"PA==">>, << >>),
                                Part("text/plain", <<"YjI=">>, << >>)>>),
             threadId |-> Some("t2")],
     m3 |-> [from |-> <<"Cy", "cy@z.org">>, subject |-> <<"Hello">>,
             payload |-> Part("multipart/mixed", << >>,
                              <<Part("multipart/alternative", << >>,
                                     <<Part("text/plain", <<"YjM=">>, << >>),
                                       Part("text/html", <<"PA==">>, << >>)>>),
                                Part("application/pdf", << >>, << >>)>>),
             threadId |-> None]]

\* the messages a query matches, but for the three-message scenario
Ids == {"m1", "m2"}

\* the results messages().list can return: the sequences of distinct ids
DistinctSeqs ==
    {s \in UNION {[1..k -> Ids] : k \in 0..Cardinality(Ids)} :
        \A i, j \in DOMAIN s : i # j => s[i] # s[j]}

\* the listings of the three-message scenario: every message, in any order
ScenarioListings ==
    {s \in [1..Cardinality(DOMAIN MAILBOX) -> DOMAIN MAILBOX] :
        \A i, j \in DOMAIN s : i # j => s[i] # s[j]}

\* a capability call, as observed: call is "list", "get" or "send"; id is the
\* message id (the query of a list), message the reply handed to send and
\* returned the ids a list returned
MailCall(call, id, message, returned) ==
    [call |-> call, id |-> id, message |-> message, returned |-> returned]

-----------------------------------------------------------------------------
(* Results of the MailboxSession methods: a dict with an "error" key, or   *)
(* a dict of values.                                                       *)

Error(msg) == [error |-> Some(msg), value |-> << >>]
Ok(v) == [error |-> None, value |-> v]

\* what a method hands back to the action that called it
Outcome(s, result, mail, llm) ==
    [session |-> s, result |-> result, mail |-> mail, llm |-> llm]

Session ==
    [index_map |-> index_map, last_draft |-> last_draft,
     last_number |-> last_number, email_cache |-> email_cache]

-----------------------------------------------------------------------------
(* MailboxSession.list_emails. env is what the provider does:              *)
(*   env.list_ok    messages().list returns (FALSE: it raises)             *)
(*   env.messages   the ids it returns, at most max_results of them        *)
(*   env.get_fault  0, or the position of the metadata get that raises     *)

ListEnvs(max_results) ==
    {[list_ok |-> FALSE, messages |-> << >>, get_fault |-> 0]} \cup
    UNION {[list_ok : {TRUE}, messages : {m}, get_fault : 0..Len(m)] :
              m \in {x \in DistinctSeqs : Len(x) <= max_results}}

Summary(i, id) ==
    [number |-> i, id |-> id,
     from |-> MAILBOX[id].from, subject |-> MAILBOX[id].subject]

HandleFromZero(i) == i - 1

HandleByTwo(i) == 2 * i

\* enumerate(messages, start=1): the number of the message at position i
Handle(i) == i

NotCleared(s) == s

ClearedWithCache(s) == [s EXCEPT !.index_map = EmptyDict, !.email_cache = EmptyDict]

\* self.index_map.clear()
Cleared(s) == [s EXCEPT !.index_map = EmptyDict]

\* the for loop over enumerate(messages, start=1), from position i on
RECURSIVE ListLoop(_, _, _, _, _, _)
ListLoop(s, messages, env, i, emails, mail) ==
    IF i > Len(messages)
    THEN Outcome(s, Ok([emails |-> emails, count |-> Some(Len(emails)),
                        message |-> None]), mail, 0)
    ELSE LET got == Append(mail, MailCall("get", messages[i], None, << >>)) IN
         IF env.get_fault = i
         THEN Outcome(s, Error(<<"provider fault">>), got, 0)
         ELSE ListLoop([s EXCEPT !.index_map = DictSet(@, Handle(i), messages[i])],
                       messages, env, i + 1,
                       Append(emails, Summary(Handle(i), messages[i])), got)

list_emails(s, max_results, query, env) ==
    LET listed == <<MailCall("list", query, None, env.messages)>> IN
    IF ~env.list_ok
    THEN Outcome(s, Error(<<"provider fault">>), listed, 0)
    ELSE LET cleared == Cleared(s) IN
         IF env.messages = << >>
         THEN Outcome(cleared,
                      Ok([emails |-> << >>, count |-> None,
                          message |-> Some("No emails found matching the query.")]),
                      listed, 0)
         ELSE ListLoop(cleared, env.messages, env, 1, << >>, listed)

-----------------------------------------------------------------------------
(* MailboxSession._generate_draft. A text is a tuple of tokens: words,     *)
(* "\n" for a line break, "\n\n" for a blank line.                         *)

Tones == {"normal", "friendly", "professional"}

\* the temperatures are in tenths
tone_configs ==
    [normal |-> [instruction |-> "Write a NORMAL, straightforward email reply.",
                 signature |-> "Regards,\nAyaan", temperature |-> 7],
     friendly |-> [instruction |-> "Write a WARM, FRIENDLY, and CASUAL reply.",
                   signature |-> "Regards,\nAyaan", temperature |-> 9],
     professional |->
        [instruction |-> "Write a FORMAL and PROFESSIONAL reply suitable for official correspondence.",
         signature |->
            "Regards,\nAyaan Asish\nGrade 11\nWest Carleton Secondary School, Ontario",
         temperature |-> 5]]

\* a tone outside the table gets the configuration of professional
ToneConfigFormal(tone) ==
    IF tone \in DOMAIN tone_configs THEN tone_configs[tone]
    ELSE tone_configs["professional"]

\* tone_configs.get(tone, tone_configs["normal"])
ToneConfig(tone) ==
    IF tone \in DOMAIN tone_configs THEN tone_configs[tone] ELSE tone_configs["normal"]

\* a fallback sentence that does not name the subject
FallbackPlain(subject) ==
    <<"Thank you for your email.", "I will review and respond shortly.">>

Fallback(subject) ==
    <<"Thank you for your email regarding">> \o subject \o
    <<"I will review and respond shortly.">>

\* tokens the closing patterns look at
Whitespace == {"\n", " ", "\n\n"}
Closings ==
    {"Best regards", "Best regards,", "Kind regards,", "Regards,", "regards,",
     "Sincerely,", "Thanks,", "Thanks", "Thank you,", "Cheers,", "Warm regards,",
     "Best,", "Yours truly,", "Yours sincerely,", "Warmly,", "Take care,",
     "With appreciation,"}
NameStarts == {"Ayaan", "Ayaan Asish", "AYAAN"}

\* str.strip(): whitespace removed from both ends
RECURSIVE Strip(_)
Strip(t) ==
    IF t = << >> THEN t
    ELSE IF Head(t) \in Whitespace THEN Strip(Tail(t))
    ELSE IF t[Len(t)] \in Whitespace THEN Strip(SubSeq(t, 1, Len(t) - 1))
    ELSE t

AllWhitespace(t) == \A i \in DOMAIN t : t[i] \in Whitespace

\* the first token of t that is not whitespace, 0 if there is none
FirstInk(t, from) ==
    IF \E i \in from..Len(t) : t[i] \notin Whitespace
    THEN CHOOSE i \in from..Len(t) :
            /\ t[i] \notin Whitespace
            /\ \A j \in from..(i - 1) : t[j] \in Whitespace
    ELSE 0

\* re.sub(pattern, '', t): matches is the set of positions where the pattern
\* matches; the leftmost match runs to the end of t
CutAt(t, matches) ==
    IF matches # {}
    THEN LET i == CHOOSE k \in matches : \A j \in matches : k <= j
         IN SubSeq(t, 1, i - 1)
    ELSE t

\* a line break, blanks, then a token of the closing library at position k
ClosingAt(t, i, k) ==
    /\ t[i] \in {"\n", "\n\n"}
    /\ k = FirstInk(t, i + 1)
    /\ k # 0
    /\ t[k] \in Closings

\* \n\s*(closing)[,.]?\s*\n?\s*(Ayaan.*)?$
Pattern1(t) ==
    LET M(i) == \E k \in DOMAIN t :
                    /\ ClosingAt(t, i, k)
                    /\ LET n == FirstInk(t, k + 1) IN
                        n = 0 \/ t[n] \in NameStarts
    IN Strip(CutAt(t, {i \in DOMAIN t : M(i)}))

\* \n\s*(closing)[,.]?\s*$
Pattern2(t) ==
    LET M(i) == \E k \in DOMAIN t :
                    ClosingAt(t, i, k) /\ FirstInk(t, k + 1) = 0
    IN Strip(CutAt(t, {i \in DOMAIN t : M(i)}))

\* \n\s*-?\s*Ayaan.*$
Pattern3(t) ==
    LET M(i) == /\ t[i] \in {"\n", "\n\n"}
                /\ LET k == FirstInk(t, i + 1) IN
                    /\ k # 0
                    /\ \/ t[k] \in NameStarts
                       \/ /\ t[k] = "-"
                          /\ LET n == FirstInk(t, k + 1) IN
                                n # 0 /\ t[n] \in NameStarts
    IN Strip(CutAt(t, {i \in DOMAIN t : M(i)}))

\* what the model writes back for the prompt; "fault" is a raised exception
DraftReplies == {"text", "signed", "empty", "fault"}

ModelText(subject, body, llm) ==
    CASE llm = "text" -> <<"About">> \o subject \o <<":">> \o body
      [] llm = "signed" -> <<"About">> \o subject \o <<":">> \o body \o
                           <<"\n\n", "Best regards,", "\n", "Ayaan">>
      [] OTHER -> << >>

\* what client.generate_text returns: None when it raises
Reply(subject, body, llm) ==
    IF llm = "fault" THEN None ELSE Some(ModelText(subject, body, llm))

\* the prompt and the temperature handed to client.generate_text
DraftPrompt(from_addr, subject, body, tone) ==
    [tone |-> tone, instruction |-> ToneConfig(tone).instruction,
     sender |-> from_addr, subject |-> subject, body |-> body,
     temperature |-> ToneConfig(tone).temperature]

\* the draft for what the model returned (reply, an Optional text)
GenerateDraft(subject, tone, reply) ==
    LET signature == ToneConfig(tone).signature IN
    IF reply = None
    THEN Fallback(subject) \o <<"\n\n", signature>>
    ELSE LET raw == The(reply)
             draft == IF Strip(raw) = << >> THEN Fallback(subject) ELSE raw
             clean == Pattern3(Pattern2(Pattern1(Strip(draft))))
         IN clean \o <<"\n\n", signature>>

generate_draft(from_addr, subject, body, tone, llm) ==
    GenerateDraft(subject, tone, Reply(subject, body, llm))

-----------------------------------------------------------------------------
(* email_utils: the plain-text body of a message, the address of a From    *)
(* header and the reply built for messages().send.                         *)

\* def extract_email_body(payload, max_length: int = 3000)
max_length == 3000

\* base64.urlsafe_b64decode(data).decode("utf-8", errors="ignore"): the
\* character of each token; a byte that is not UTF-8 is dropped
Decoded ==
    [t \in {"YQ==", "Yg==", "Yw==", "ZA==", "eA==", "PA==", "YjE=", "YjI=", "YjM="} |->
        CASE t = "YQ==" -> "a" [] t = "Yg==" -> "b" [] t = "Yw==" -> "c"
          [] t = "ZA==" -> "d" [] t = "eA==" -> "x" [] t = "PA==" -> "<"
          [] t = "YjE=" -> "b1" [] t = "YjI=" -> "b2" [] OTHER -> "b3"]

IsText(t) == t \in DOMAIN Decoded

Decode(data) ==
    LET text == SelectSeq(data, IsText) IN
    [i \in 1..Len(text) |-> Decoded[text[i]]]

\* body[:limit]
Truncate(body, limit) ==
    IF Len(body) <= limit THEN body ELSE SubSeq(body, 1, limit)

IsMultipart(part) ==
    part.mimeType \in {"multipart/alternative", "multipart/mixed", "multipart/related"}

\* the scan stops at the first part: parts after it are never looked at
extract_first_part_only(payload, limit) ==
    IF payload.data # << >>
    THEN Truncate(Decode(payload.data), limit)
    ELSE IF payload.parts # << >> /\ payload.parts[1].mimeType = "text/plain"
    THEN Truncate(Decode(payload.parts[1].data), limit)
    ELSE << >>

RECURSIVE extract_email_body(_, _)
RECURSIVE ScanParts(_, _)

\* for part in payload.get("parts", [])
ScanParts(parts, limit) ==
    IF parts = << >> THEN << >>
    ELSE LET part == Head(parts) IN
         IF part.mimeType = "text/plain" /\ part.data # << >>
         THEN Truncate(Decode(part.data), limit)
         ELSE IF IsMultipart(part)
         THEN LET nested_body == extract_email_body(part, limit) IN
              IF nested_body # << >> THEN nested_body
              ELSE ScanParts(Tail(parts), limit)
         ELSE ScanParts(Tail(parts), limit)

extract_email_body(payload, limit) ==
    IF payload.data # << >>
    THEN Truncate(Decode(payload.data), limit)
    ELSE ScanParts(payload.parts, limit)

\* "Name <addr>" gives addr, anything else is returned stripped
parse_email_address(from_header) == from_header[Len(from_header)]

\* subject.lower().startswith("re:")
StartsWithRe(subject) ==
    subject # << >> /\ Head(subject) \in {"Re:", "RE:", "re:", "rE:"}

\* a prefix that is added whatever the subject starts with
ReplySubjectAlways(subject) == <<"Re:">> \o subject

\* if not subject.lower().startswith("re:"): subject = f"Re: {subject}"
ReplySubject(subject) ==
    IF ~StartsWithRe(subject) THEN <<"Re:">> \o subject ELSE subject

\* result["threadId"] is set if thread_id is given (thread_id is an Optional)
create_reply_message(to_address, subject, body, thread_id) ==
    [to |-> to_address, subject |-> ReplySubject(subject), body |-> body,
     threadId |-> thread_id]

\* the "subject" of send_reply's result
ResultSubject(subject) ==
    IF StartsWithRe(subject) THEN subject ELSE <<"Re:">> \o subject

-----------------------------------------------------------------------------
(* MailboxSession.read_email. env.get_ok: messages().get returns;          *)
(* env.llm: what the model does for the draft prompt.                      *)

ReadEnvs ==
    {[get_ok |-> FALSE, llm |-> "fault"]} \cup [get_ok : {TRUE}, llm : DraftReplies]

\* a lookup that falls back to a message when the handle is unknown
LookupOrFirst(s, number) ==
    IF number \in DOMAIN s.index_map THEN Some(s.index_map[number]) ELSE Some("m1")

\* index_map.get(number)
Lookup(s, number) ==
    IF number \in DOMAIN s.index_map THEN Some(s.index_map[number]) ELSE None

NotCached(s, number, msg, body) == s

\* self.email_cache[number] = {"from": ..., "subject": ..., "body": body}
Cached(s, number, msg, body) ==
    [s EXCEPT !.email_cache =
        DictSet(@, number,
                [from |-> msg.from, subject |-> msg.subject, body |-> body])]

ReadFaultLosesDraft(s, mail) ==
    Outcome([s EXCEPT !.last_draft = None, !.last_number = None],
            Error(<<"provider fault">>), mail, 0)

\* messages().get raises: except Exception as e: return {"error": str(e)}
ReadFault(s, mail) == Outcome(s, Error(<<"provider fault">>), mail, 0)

read_email(s, number, generate, tone, env) ==
    LET email_id == Lookup(s, number) IN
    IF email_id = None
    THEN Outcome(s, Error(<<"Invalid email number", "Please list emails first.">>),
                 << >>, 0)
    ELSE LET id == The(email_id)
             got == <<MailCall("get", id, None, << >>)>>
         IN
         IF ~env.get_ok
         THEN ReadFault(s, got)
         ELSE LET msg == MAILBOX[id]
                  body == extract_email_body(msg.payload, max_length)
                  cached == Cached(s, number, msg, body)
                  draft == generate_draft(msg.from, msg.subject, body, tone, env.llm)
              IN
              IF generate
              THEN Outcome([cached EXCEPT !.last_draft = Some(draft),
                                          !.last_number = Some(number)],
                           Ok([number |-> number, id |-> id, body |-> body,
                               draft_reply |-> Some(draft), tone |-> Some(tone)]),
                           got, 1)
              ELSE Outcome(cached,
                           Ok([number |-> number, id |-> id, body |-> body,
                               draft_reply |-> None, tone |-> None]),
                           got, 0)

-----------------------------------------------------------------------------
(* MailboxSession.regenerate_draft.                                        *)

regenerate_from_mailbox(s, number, tone, llm) ==
    IF number \notin DOMAIN s.index_map
    THEN Outcome(s, Error(<<"Email not found in cache", "Please read the email first.">>),
                 << >>, 0)
    ELSE LET msg == MAILBOX[s.index_map[number]]
             draft == generate_draft(msg.from, msg.subject,
                                     extract_email_body(msg.payload, max_length),
                                     tone, llm)
         IN Outcome([s EXCEPT !.last_draft = Some(draft), !.last_number = Some(number)],
                    Ok([number |-> number, draft_reply |-> Some(draft),
                        tone |-> Some(tone)]),
                    << >>, 1)

\* the new draft is stored and returned
Regenerated(s, number, tone, draft) ==
    Outcome([s EXCEPT !.last_draft = Some(draft), !.last_number = Some(number)],
            Ok([number |-> number, draft_reply |-> Some(draft), tone |-> Some(tone)]),
            << >>, 1)

regenerate_draft(s, number, tone, llm) ==
    IF number \notin DOMAIN s.email_cache
    THEN Outcome(s, Error(<<"Email not found in cache", "Please read the email first.">>),
                 << >>, 0)
    ELSE LET cached == s.email_cache[number] IN
         Regenerated(s, number, tone,
                     generate_draft(cached.from, cached.subject, cached.body, tone, llm))

-----------------------------------------------------------------------------
(* MailboxSession.send_reply. reply_body is an Optional text; env is what   *)
(* happens inside the try: "get_fault" (messages().get raises),            *)
(* "build_fault" (building the reply raises), "send_fault"                 *)
(* (messages().send raises) or "ok".                                       *)

SendEnvs == {"get_fault", "build_fault", "send_fault", "ok"}

\* not self.last_draft
Falsy(draft) == draft = None \/ draft = Some(<< >>)

NoDraftAtAll(s, number) == Falsy(s.last_draft)

\* self.last_number != number or not self.last_draft
NoDraftFor(s, number) == s.last_number # Some(number) \/ Falsy(s.last_draft)

DraftKept(s, number) == s

AlwaysCleared(s, number) == [s EXCEPT !.last_draft = None, !.last_number = None]

AfterSendKeepsNumber(s, number) ==
    IF s.last_number = Some(number) THEN [s EXCEPT !.last_draft = None] ELSE s

\* if self.last_number == number: the draft is cleared after a send
AfterSend(s, number) ==
    IF s.last_number = Some(number)
    THEN [s EXCEPT !.last_draft = None, !.last_number = None]
    ELSE s

SendFaultLosesDraft(s, mail) ==
    Outcome([s EXCEPT !.last_draft = None, !.last_number = None],
            Error(<<"provider fault">>), mail, 0)

\* except Exception as e: return {"error": str(e)}
SendFault(s, mail) == Outcome(s, Error(<<"provider fault">>), mail, 0)

NoDraftErrorClears(s) ==
    Outcome([s EXCEPT !.last_draft = None, !.last_number = None],
            Error(<<"No draft available for this email",
                    "Please read the email first to generate a draft.">>),
            << >>, 0)

\* return {"error": "No draft available for this email. ..."}
NoDraftError(s) ==
    Outcome(s, Error(<<"No draft available for this email",
                       "Please read the email first to generate a draft.">>),
            << >>, 0)

send_reply(s, number, reply_body, env) ==
    LET email_id == Lookup(s, number) IN
    IF email_id = None
    THEN Outcome(s, Error(<<"Invalid email number", "Please list emails first.">>),
                 << >>, 0)
    ELSE IF reply_body = None /\ NoDraftFor(s, number)
    THEN NoDraftError(s)
    ELSE LET id == The(email_id)
             body == IF reply_body = None THEN The(s.last_draft) ELSE The(reply_body)
             got == <<MailCall("get", id, None, << >>)>>
             orig == MAILBOX[id]
             to_addr == parse_email_address(orig.from)
             message == create_reply_message(to_addr, orig.subject, body, orig.threadId)
             sent == Append(got, MailCall("send", id, Some(message), << >>))
         IN
         IF env \in {"get_fault", "build_fault"} THEN SendFault(s, got)
         ELSE IF env = "send_fault" THEN SendFault(s, sent)
         ELSE Outcome(AfterSend(s, number),
                      Ok([sent_to |-> to_addr, subject |-> ResultSubject(orig.subject)]),
                      sent, 0)

-----------------------------------------------------------------------------
(* MailboxSession.clear and the state after __init__.                      *)

NewSession ==
    [index_map |-> EmptyDict, last_draft |-> None, last_number |-> None,
     email_cache |-> EmptyDict]

clearKeepsDraft(s) ==
    [NewSession EXCEPT !.last_draft = s.last_draft, !.last_number = s.last_number]

clearKeepsCache(s) == [NewSession EXCEPT !.email_cache = s.email_cache]

clear(s) == NewSession

-----------------------------------------------------------------------------
(* The state after construction: MailboxSession() and GmailAgent(...).     *)

NoOp == [name |-> "none", number |-> None, reply_body |-> None,
         result |-> Ok(<< >>), mail |-> << >>, llm |-> 0]

\* outcome: "none", "running", "text" (chat returned) or "raised"
NoTurn == [llm_calls |-> 0, executed |-> << >>, outcome |-> "none", start |-> 0,
           first_calls |-> << >>, final_calls |-> << >>]

Init ==
    /\ index_map = EmptyDict
    /\ last_draft = None
    /\ last_number = None
    /\ email_cache = EmptyDict
    /\ conversation_history = << >>
    /\ pc = "idle"
    /\ tool_calls = << >>
    /\ tc = 0
    /\ turn = NoTurn
    /\ op = NoOp

\* the session after a method returned, and what the call was seen to do
Commit(o, name, number, reply_body) ==
    /\ index_map' = o.session.index_map
    /\ last_draft' = o.session.last_draft
    /\ last_number' = o.session.last_number
    /\ email_cache' = o.session.email_cache
    /\ op' = [name |-> name, number |-> number, reply_body |-> reply_body,
              result |-> o.result, mail |-> o.mail, llm |-> o.llm]

-----------------------------------------------------------------------------
(* Calls of the MailboxSession methods from outside a chat turn (the       *)
(* /emails endpoints of app/main.py).                                      *)

Numbers == 1..(Cardinality(Ids) + 1)
ToneInputs == Tones \cup {"casual"}
MaxResultsInputs == {1, 10}
Bodies == {None, Some(<<"custom">>), Some(<< >>)}

ListEmails ==
    /\ pc = "idle"
    /\ \E max_results \in MaxResultsInputs : \E env \in ListEnvs(max_results) :
          Commit(list_emails(Session, max_results, "is:unread", env),
                 "list_emails", None, None)
    /\ UNCHANGED <<conversation_history, pc, tool_calls, tc, turn>>

ReadEmail ==
    /\ pc = "idle"
    /\ \E number \in Numbers, generate \in BOOLEAN, tone \in ToneInputs, env \in ReadEnvs :
          \* a read without a draft does not look at the tone or call the model
          /\ ~generate => tone = "normal" /\ env.llm = "fault"
          /\ Commit(read_email(Session, number, generate, tone, env),
                    "read_email", Some(number), None)
    /\ UNCHANGED <<conversation_history, pc, tool_calls, tc, turn>>

RegenerateDraft ==
    /\ pc = "idle"
    /\ \E number \in Numbers, tone \in ToneInputs, llm \in DraftReplies :
          Commit(regenerate_draft(Session, number, tone, llm),
                 "regenerate_draft", Some(number), None)
    /\ UNCHANGED <<conversation_history, pc, tool_calls, tc, turn>>

SendReply ==
    /\ pc = "idle"
    /\ \E number \in Numbers, reply_body \in Bodies, env \in SendEnvs :
          Commit(send_reply(Session, number, reply_body, env),
                 "send_reply", Some(number), reply_body)
    /\ UNCHANGED <<conversation_history, pc, tool_calls, tc, turn>>

\* a reset served while a chat turn is running
ResetAnytime ==
    /\ conversation_history' = << >>
    /\ Commit(Outcome(clear(Session), Ok(<< >>), << >>, 0), "clear", None, None)
    /\ turn' = NoTurn
    /\ UNCHANGED <<pc, tool_calls, tc>>

\* GmailAgent.reset
Reset ==
    /\ pc = "idle"
    /\ conversation_history' = << >>
    /\ Commit(Outcome(clear(Session), Ok(<< >>), << >>, 0), "clear", None, None)
    /\ turn' = NoTurn
    /\ UNCHANGED <<pc, tool_calls, tc>>

-----------------------------------------------------------------------------
(* The tool menu and the tool calls a model response can carry. The        *)
(* arguments of a call arrive as a dict ("dict"), as the JSON text of a    *)
(* dict ("json") or as text json.loads rejects ("garbage"); kw holds the   *)
(* keyword arguments, None for a key that is absent.                       *)

Kw(email_number, reply_body, max_results) ==
    [email_number |-> email_number, reply_body |-> reply_body,
     max_results |-> max_results]

NoKw == Kw(None, None, None)

ToolCall(name, enc, kw) == [name |-> name, enc |-> enc, kw |-> kw]

ToolCallMenu ==
    {ToolCall("list_emails", "dict", NoKw),
     ToolCall("list_emails", "garbage", NoKw),
     ToolCall("read_email", "dict", Kw(Some(1), None, None)),
     ToolCall("read_email", "json", Kw(Some(1), None, None)),
     ToolCall("read_email", "garbage", NoKw),
     ToolCall("send_email_reply", "dict", Kw(Some(1), None, None)),
     ToolCall("send_email_reply", "garbage", NoKw),
     ToolCall("delete_email", "dict", Kw(Some(1), None, None))}

\* the tool_calls of a model response: none, or up to MaxCalls of the menu
ToolCallSeqs == UNION {[1..k -> ToolCallMenu] : k \in 0..MaxCalls}

\* the tool_calls the final response of a turn can carry
FinalCalls == {<< >>, <<ToolCall("list_emails", "dict", NoKw)>>}

\* if isinstance(func_args, str): json.loads, {} on JSONDecodeError
ParseArguments(call) == IF call.enc = "garbage" THEN NoKw ELSE call.kw

\* the dispatch table and the parameters of its wrappers
tool_functions ==
    [list_emails |-> [required |-> {}, accepted |-> {"max_results", "query"}],
     read_email |-> [required |-> {"email_number"}, accepted |-> {"email_number"}],
     send_email_reply |-> [required |-> {"email_number"},
                           accepted |-> {"email_number", "reply_body"}]]

Present(kw) == {k \in DOMAIN kw : kw[k] # None}

\* f(**func_args) raises TypeError: a required parameter is missing or a
\* keyword is not a parameter
BindFails(name, kw) ==
    ~ /\ tool_functions[name].required \subseteq Present(kw)
      /\ Present(kw) \subseteq tool_functions[name].accepted

\* the environments of one tool invocation
ToolEnvs(name, kw) ==
    CASE name = "list_emails" ->
            {[list |-> e, read |-> [get_ok |-> FALSE, llm |-> "fault"], send |-> "ok"] :
                e \in ListEnvs(IF kw.max_results = None THEN 10
                               ELSE The(kw.max_results))}
      [] name = "read_email" ->
            {[list |-> [list_ok |-> FALSE, messages |-> << >>, get_fault |-> 0],
              read |-> e, send |-> "ok"] : e \in ReadEnvs}
      [] OTHER ->
            {[list |-> [list_ok |-> FALSE, messages |-> << >>, get_fault |-> 0],
              read |-> [get_ok |-> FALSE, llm |-> "fault"], send |-> e] :
                e \in SendEnvs}

\* every tool call runs against a session of its own
CallToolFresh(s, name, kw, env) ==
    CASE name = "list_emails" ->
            list_emails(NewSession, IF kw.max_results = None THEN 10
                                    ELSE The(kw.max_results),
                        "is:unread", env.list)
      [] name = "read_email" ->
            read_email(NewSession, The(kw.email_number), TRUE, "normal", env.read)
      [] OTHER ->
            send_reply(NewSession, The(kw.email_number), kw.reply_body, env.send)

\* a read_email tool that fetches the message and generates no draft
CallToolReadsOnly(s, name, kw, env) ==
    CASE name = "list_emails" ->
            list_emails(s, IF kw.max_results = None THEN 10 ELSE The(kw.max_results),
                        "is:unread", env.list)
      [] name = "read_email" ->
            read_email(s, The(kw.email_number), FALSE, "normal", env.read)
      [] OTHER ->
            send_reply(s, The(kw.email_number), kw.reply_body, env.send)

\* _tool_list_emails, _tool_read_email, _tool_send_reply
CallTool(s, name, kw, env) ==
    CASE name = "list_emails" ->
            list_emails(s, IF kw.max_results = None THEN 10 ELSE The(kw.max_results),
                        "is:unread", env.list)
      [] name = "read_email" ->
            read_email(s, The(kw.email_number), TRUE, "normal", env.read)
      [] OTHER ->
            send_reply(s, The(kw.email_number), kw.reply_body, env.send)

Message(role, content, calls) ==
    [role |-> role, content |-> content, tool_calls |-> calls]

-----------------------------------------------------------------------------
(* GmailAgent.chat, in three steps: the first model call, one tool call    *)
(* of the for loop, the final model call.                                  *)

\* the user message as the only message: the history before it is lost
AskedFresh(history) == <<Message("user", <<"user text">>, << >>)>>

\* self.conversation_history.append({"role": "user", ...})
Asked(history) == Append(history, Message("user", <<"user text">>, << >>))

\* a turn that clears the session when the model answers in text
ChatStartClears(limit) ==
    /\ pc = "idle"
    /\ Len(conversation_history) < limit
    /\ LET asked == Asked(conversation_history)
           began == [NoTurn EXCEPT !.llm_calls = 1,
                                   !.start = Len(conversation_history)]
       IN
       \/ /\ conversation_history' = asked
          /\ turn' = [began EXCEPT !.outcome = "raised"]
          /\ UNCHANGED <<pc, tool_calls, tc, index_map, last_draft, last_number,
                         email_cache, op>>
       \/ \E calls \in ToolCallSeqs :
             IF calls # << >>
             THEN /\ conversation_history' =
                         Append(asked, Message("assistant", << >>, calls))
                  /\ pc' = "tools"
                  /\ tool_calls' = calls
                  /\ tc' = 1
                  /\ turn' = [began EXCEPT !.outcome = "running",
                                           !.first_calls = calls]
                  /\ UNCHANGED <<index_map, last_draft, last_number,
                                 email_cache, op>>
             ELSE /\ conversation_history' =
                         Append(asked, Message("assistant", <<"answer">>, << >>))
                  /\ turn' = [began EXCEPT !.outcome = "text"]
                  /\ index_map' = EmptyDict
                  /\ last_draft' = None
                  /\ last_number' = None
                  /\ email_cache' = EmptyDict
                  /\ UNCHANGED <<pc, tool_calls, tc, op>>

\* the first model call of a turn that starts while the history is shorter
\* than limit: it raises, or returns text and tool calls
ChatStart(limit) ==
    /\ pc = "idle"
    /\ Len(conversation_history) < limit
    /\ LET asked == Asked(conversation_history)
           began == [NoTurn EXCEPT !.llm_calls = 1,
                                   !.start = Len(conversation_history)]
       IN
       \/ /\ conversation_history' = asked
          /\ turn' = [began EXCEPT !.outcome = "raised"]
          /\ UNCHANGED <<pc, tool_calls, tc>>
       \/ \E calls \in ToolCallSeqs :
             IF calls # << >>
             THEN /\ conversation_history' =
                         Append(asked, Message("assistant", << >>, calls))
                  /\ pc' = "tools"
                  /\ tool_calls' = calls
                  /\ tc' = 1
                  /\ turn' = [began EXCEPT !.outcome = "running",
                                           !.first_calls = calls]
             ELSE /\ conversation_history' =
                         Append(asked, Message("assistant", <<"answer">>, << >>))
                  /\ turn' = [began EXCEPT !.outcome = "text"]
                  /\ UNCHANGED <<pc, tool_calls, tc>>
    /\ UNCHANGED <<index_map, last_draft, last_number, email_cache, op>>

ChatBegin == ChatStart(MaxHistory)

\* a loop that starts over after its last tool call
ChatToolRepeats ==
    /\ pc = "tools"
    /\ tc' = IF tc = Len(tool_calls) THEN 1 ELSE tc + 1
    /\ UNCHANGED <<index_map, last_draft, last_number, email_cache,
                   conversation_history, pc, tool_calls, turn, op>>

\* one iteration of: for tool_call in tool_calls
ChatTool ==
    /\ pc = "tools"
    /\ LET call == tool_calls[tc]
           func_args == ParseArguments(call)
           next == IF tc = Len(tool_calls) THEN "final" ELSE "tools"
       IN
       IF call.name \in DOMAIN tool_functions
       THEN IF BindFails(call.name, func_args)
            THEN \* TypeError leaves chat
                 /\ pc' = "idle"
                 /\ tool_calls' = << >>
                 /\ tc' = 0
                 /\ turn' = [turn EXCEPT !.outcome = "raised"]
                 /\ UNCHANGED <<index_map, last_draft, last_number, email_cache,
                                conversation_history, op>>
            ELSE \E env \in ToolEnvs(call.name, func_args) :
                    LET o == CallTool(Session, call.name, func_args, env) IN
                    /\ Commit(o, call.name, func_args.email_number,
                              func_args.reply_body)
                    /\ conversation_history' =
                          Append(conversation_history,
                                 Message("tool", <<o.result>>, << >>))
                    /\ turn' = [turn EXCEPT !.executed = Append(@, tc)]
                    /\ tc' = tc + 1
                    /\ pc' = next
                    /\ UNCHANGED tool_calls
       ELSE /\ conversation_history' =
                  Append(conversation_history,
                         Message("tool",
                                 <<Error(<<"Unknown function:", call.name>>)>>, << >>))
            /\ turn' = [turn EXCEPT !.executed = Append(@, tc)]
            /\ tc' = tc + 1
            /\ pc' = next
            /\ UNCHANGED <<index_map, last_draft, last_number, email_cache, op,
                           tool_calls>>

\* the final step as a loop over the tool calls of every response
ChatFinalLoops ==
    /\ pc = "final"
    /\ \/ /\ turn' = [turn EXCEPT !.llm_calls = @ + 1, !.outcome = "raised"]
          /\ pc' = "idle"
          /\ tool_calls' = << >>
          /\ tc' = 0
          /\ UNCHANGED conversation_history
       \/ \E calls \in FinalCalls :
             /\ turn' = [turn EXCEPT !.llm_calls = @ + 1,
                                     !.outcome = IF calls = << >> THEN "text"
                                                 ELSE "running",
                                     !.final_calls = calls]
             /\ conversation_history' =
                   Append(conversation_history,
                          Message("assistant", <<"answer">>, calls))
             /\ pc' = IF calls = << >> THEN "idle" ELSE "tools"
             /\ tool_calls' = calls
             /\ tc' = IF calls = << >> THEN 0 ELSE 1
    /\ UNCHANGED <<index_map, last_draft, last_number, email_cache, op>>

\* the final model call: it raises, or its content is returned; tool calls
\* of this response are not looked at
ChatFinal ==
    /\ pc = "final"
    /\ pc' = "idle"
    /\ tool_calls' = << >>
    /\ tc' = 0
    /\ \/ /\ turn' = [turn EXCEPT !.llm_calls = @ + 1, !.outcome = "raised"]
          /\ UNCHANGED conversation_history
       \/ \E calls \in FinalCalls :
             /\ turn' = [turn EXCEPT !.llm_calls = @ + 1, !.outcome = "text",
                                     !.final_calls = calls]
             /\ conversation_history' =
                   Append(conversation_history,
                          Message("assistant", <<"answer">>, << >>))
    /\ UNCHANGED <<index_map, last_draft, last_number, email_cache, op>>

-----------------------------------------------------------------------------
(* The end-to-end scenario: listings of three messages, reads of handle 2  *)
(* with tone friendly and sends for handle 2 without a body.               *)

ScenarioList ==
    /\ pc = "idle"
    /\ \E messages \in ScenarioListings :
          Commit(list_emails(Session, 5, "is:unread",
                             [list_ok |-> TRUE, messages |-> messages, get_fault |-> 0]),
                 "list_emails", None, None)
    /\ UNCHANGED <<conversation_history, pc, tool_calls, tc, turn>>

ScenarioRead ==
    /\ pc = "idle"
    /\ \E env \in ReadEnvs :
          Commit(read_email(Session, 2, TRUE, "friendly", env),
                 "read_email", Some(2), None)
    /\ UNCHANGED <<conversation_history, pc, tool_calls, tc, turn>>

ScenarioSend ==
    /\ pc = "idle"
    /\ \E env \in SendEnvs :
          Commit(send_reply(Session, 2, None, env), "send_reply", Some(2), None)
    /\ UNCHANGED <<conversation_history, pc, tool_calls, tc, turn>>

NextScenario == ScenarioList \/ ScenarioRead \/ ScenarioSend

SpecScenario == Init /\ [][NextScenario]_vars

-----------------------------------------------------------------------------
(* Calls of the MailboxSession methods right after a reset: the /emails    *)
(* endpoints work on the session the agent has just cleared.               *)

AfterReset == op.name = "clear"

ReadAfterReset == AfterReset /\ ReadEmail

RegenerateAfterReset == AfterReset /\ RegenerateDraft

SendAfterReset == AfterReset /\ SendReply

\* a chat turn whose first response carries at most MaxCallsReset tool calls
ChatBeginShort == ChatBegin /\ Len(tool_calls') <= MaxCallsReset

NextReset ==
    \/ ChatBeginShort \/ ChatTool \/ ChatFinal \/ Reset
    \/ ReadAfterReset \/ RegenerateAfterReset \/ SendAfterReset

\* the agent, with direct calls of the session after each reset
SpecReset == Init /\ [][NextReset]_vars

-----------------------------------------------------------------------------
(* Several chat turns of one agent, and the OAuth callback of app/main.py, *)
(* which constructs a new MailboxSession and a new GmailAgent around it.   *)

\* a further turn: it starts while the history is shorter than
\* MaxHistoryTurns, and its first response carries at most one tool call
ChatBeginAgain == ChatStart(MaxHistoryTurns) /\ Len(tool_calls') <= 1

\* state.mailbox = MailboxSession(); state.agent = GmailAgent(...)
AuthCallback ==
    /\ pc = "idle"
    /\ conversation_history' = << >>
    /\ Commit(Outcome(NewSession, Ok(<< >>), << >>, 0), "auth_callback", None, None)
    /\ turn' = NoTurn
    /\ UNCHANGED <<pc, tool_calls, tc>>

NextTurns == ChatBeginAgain \/ ChatTool \/ ChatFinal \/ Reset \/ AuthCallback

\* one hosted agent over several turns
SpecTurns == Init /\ [][NextTurns]_vars

-----------------------------------------------------------------------------
(* The draft generator on its own: a session that has read one message as  *)
(* handle 1, and one regenerate_draft(1, tone) for each tone and each      *)
(* thing the model can return.                                             *)

ReplyTokens == {"Hi", "\n", "regards,", "Ayaan", "[Your Name]"}

\* the texts of at most MaxReply tokens
ReplyTexts == UNION {[1..k -> ReplyTokens] : k \in 0..MaxReply}

\* what client.generate_text does: it raises (None) or returns a text
ModelReplies == {None} \cup {Some(t) : t \in ReplyTexts}

InitDraft ==
    /\ \E id \in Ids :
          /\ index_map = <<id>>
          /\ email_cache = <<[from |-> MAILBOX[id].from,
                              subject |-> MAILBOX[id].subject,
                              body |-> extract_email_body(MAILBOX[id].payload,
                                                          max_length)]>>
    /\ last_draft = None
    /\ last_number = None
    /\ conversation_history = << >>
    /\ pc = "idle"
    /\ tool_calls = << >>
    /\ tc = 0
    /\ turn = NoTurn
    /\ op = NoOp

\* regenerate_draft(1, tone) while the model returns reply
DraftWith ==
    /\ op = NoOp
    /\ \E tone \in ToneInputs, reply \in ModelReplies :
          LET cached == email_cache[1]
              o == Regenerated(Session, 1, tone,
                               GenerateDraft(cached.subject, tone, reply))
          IN
          /\ index_map' = o.session.index_map
          /\ last_draft' = o.session.last_draft
          /\ last_number' = o.session.last_number
          /\ email_cache' = o.session.email_cache
          /\ op' = [name |-> "regenerate_draft", number |-> Some(1),
                    reply_body |-> None, result |-> o.result, mail |-> o.mail,
                    llm |-> o.llm, tone |-> tone, reply |-> reply,
                    prompt |-> DraftPrompt(cached.from, cached.subject,
                                           cached.body, tone)]
    /\ UNCHANGED <<conversation_history, pc, tool_calls, tc, turn>>

SpecDraft == InitDraft /\ [][DraftWith]_vars

-----------------------------------------------------------------------------
(* extract_email_body on its own: a payload tree and a maximum length,     *)
(* then the call.                                                          *)

Leaves ==
    {Part("text/plain", << >>, << >>),
     Part("text/plain", <<"YQ==", "Yg==", "Yw==">>, << >>),
     Part("text/plain", <<"ZA==">>, << >>),
     Part("text/html", <<"PA==">>, << >>)}

\* body data of a part that has parts: "x" and a byte that is not UTF-8
Inline == <<"eA==", "_w==">>

\* the multipart parts inside a payload
Containers ==
    {Part("multipart/alternative", << >>, parts) :
        parts \in UNION {[1..k -> Leaves] : k \in {1, 2}}}
    \cup {Part("multipart/related", Inline, <<Part("text/plain", <<"ZA==">>, << >>)>>)}

Payloads ==
    Leaves
    \cup {Part("multipart/mixed", << >>, parts) :
            parts \in UNION {[1..k -> Leaves \cup Containers] : k \in 1..MaxParts}}
    \cup {Part("multipart/mixed", Inline, <<part>>) : part \in Leaves \cup Containers}

Limits == {1, 2, max_length}

InitBody ==
    /\ index_map = EmptyDict
    /\ last_draft = None
    /\ last_number = None
    /\ email_cache = EmptyDict
    /\ conversation_history = << >>
    /\ pc = "idle"
    /\ tool_calls = << >>
    /\ tc = 0
    /\ turn = NoTurn
    /\ \E payload \in Payloads, limit \in Limits :
          op = [name |-> "payload", payload |-> payload, limit |-> limit,
                body |-> << >>]

\* body = extract_email_body(payload, limit)
ExtractBody ==
    /\ op.name = "payload"
    /\ op' = [op EXCEPT !.name = "extract_email_body",
                        !.body = extract_email_body(op.payload, op.limit)]
    /\ UNCHANGED <<index_map, last_draft, last_number, email_cache,
                   conversation_history, pc, tool_calls, tc, turn>>

SpecBody == InitBody /\ [][ExtractBody]_vars

-----------------------------------------------------------------------------
(* The agent when every call of a capability returns or raises: a tool     *)
(* call that is due and a final model call that is due do happen.          *)

NextLive == ChatBeginShort \/ ChatTool \/ ChatFinal \/ Reset

\* what a step of ChatTool does to pc and tc: the loop moves on to the next
\* tool call or to the final model call, or chat is left by an exception.
\* From pc = "tools" every step of NextLive is a step of ChatTool, so weak
\* fairness of ToolReturns is weak fairness of ChatTool.
ToolReturns ==
    /\ pc = "tools"
    /\ \/ tc' = tc + 1 /\ pc' \in {"tools", "final"}
       \/ tc' = 0 /\ pc' = "idle"

SpecLive ==
    /\ Init
    /\ [][NextLive]_vars
    /\ WF_<<pc, tc>>(ToolReturns)
    /\ WF_vars(ChatFinal)

-----------------------------------------------------------------------------
(* The /emails endpoints of app/main.py with their request validation: the *)
(* request models (Field(..., ge=1)) and the tone checks of the handlers.  *)

\* HTTPException(status_code=...) or the 422 of the request model
HttpError(s, status) == Outcome(s, Error(<<"HTTP", status>>), << >>, 0)

valid_tones == {"normal", "friendly", "professional"}

\* POST /emails/read
post_read_email(s, email_number, generate, tone, env) ==
    IF email_number < 1 THEN HttpError(s, "422")
    ELSE read_email(s, email_number, generate,
                    IF tone \in valid_tones THEN tone ELSE "normal", env)

\* POST /emails/regenerate-draft
post_regenerate_draft(s, email_number, tone, llm) ==
    IF email_number < 1 THEN HttpError(s, "422")
    ELSE IF tone \notin valid_tones THEN HttpError(s, "400")
    ELSE regenerate_draft(s, email_number, tone, llm)

\* POST /emails/reply
post_send_reply(s, email_number, reply_body, env) ==
    IF email_number < 1 THEN HttpError(s, "422")
    ELSE send_reply(s, email_number, reply_body, env)

\* the session after a request, the call and the tone of the request
CommitRequest(o, name, number, reply_body, tone) ==
    /\ index_map' = o.session.index_map
    /\ last_draft' = o.session.last_draft
    /\ last_number' = o.session.last_number
    /\ email_cache' = o.session.email_cache
    /\ op' = [name |-> name, number |-> number, reply_body |-> reply_body,
              result |-> o.result, mail |-> o.mail, llm |-> o.llm, tone |-> tone]

RequestNumbers == 0..Cardinality(Ids)
RequestTones == {"normal", "professional", "casual"}

PostList ==
    /\ pc = "idle"
    /\ \E env \in ListEnvs(10) :
          CommitRequest(list_emails(Session, 10, "is:unread", env),
                        "list_emails", None, None, None)
    /\ UNCHANGED <<conversation_history, pc, tool_calls, tc, turn>>

PostRead ==
    /\ pc = "idle"
    /\ \E number \in RequestNumbers, tone \in RequestTones, env \in ReadEnvs :
          CommitRequest(post_read_email(Session, number, TRUE, tone, env),
                        "read_email", Some(number), None, Some(tone))
    /\ UNCHANGED <<conversation_history, pc, tool_calls, tc, turn>>

PostRegenerate ==
    /\ pc = "idle"
    /\ \E number \in RequestNumbers, tone \in RequestTones, llm \in DraftReplies :
          CommitRequest(post_regenerate_draft(Session, number, tone, llm),
                        "regenerate_draft", Some(number), None, Some(tone))
    /\ UNCHANGED <<conversation_history, pc, tool_calls, tc, turn>>

PostReply ==
    /\ pc = "idle"
    /\ \E number \in RequestNumbers, reply_body \in Bodies, env \in SendEnvs :
          CommitRequest(post_send_reply(Session, number, reply_body, env),
                        "send_reply", Some(number), reply_body, None)
    /\ UNCHANGED <<conversation_history, pc, tool_calls, tc, turn>>

NextApi == PostList \/ PostRead \/ PostRegenerate \/ PostReply

\* the session behind the /emails endpoints
SpecApi == Init /\ [][NextApi]_vars

-----------------------------------------------------------------------------
NextMailbox == ListEmails \/ ReadEmail \/ RegenerateDraft \/ SendReply \/ Reset

\* the MailboxSession alone, called method by method
SpecMailbox == Init /\ [][NextMailbox]_vars

Next == ChatBegin \/ ChatTool \/ ChatFinal \/ Reset

\* the agent as run_cli drives it: chat turns and resets
Spec == Init /\ [][Next]_vars

-----------------------------------------------------------------------------
(* What a call was seen to do.                                             *)

Failed(o) == o.result.error # None

\* the ids the provider returned to a list_emails call
Returned(o) == o.mail[1].returned

\* the ids the call fetched with messages().get
Fetched(o) == {o.mail[i].id : i \in {j \in DOMAIN o.mail : o.mail[j].call = "get"}}

\* the replies the call handed to messages().send
Sends(o) == {o.mail[i].message : i \in {j \in DOMAIN o.mail : o.mail[j].call = "send"}}

Listed(o) == o.name = "list_emails" /\ ~Failed(o)

\* a method other than list_emails and clear has run
Used(o) == o.name \in {"read_email", "regenerate_draft", "send_reply"}

-----------------------------------------------------------------------------
(* Claims about the MailboxSession, checked under SpecMailbox.             *)

\* C1: after a list_emails that succeeds with K >= 1 messages the keys of
\* index_map are exactly 1..K and handle i maps to the i-th id the provider
\* returned; read_email, regenerate_draft and send_reply leave index_map as
\* it is, and read_email(h) and send_reply(h) return an error for every h that
\* is not a key.
C1_HandlesAfterListing ==
    [][/\ (Listed(op') /\ Len(Returned(op')) >= 1) =>
            /\ DOMAIN index_map' = 1..Len(Returned(op'))
            /\ \A i \in 1..Len(Returned(op')) : index_map'[i] = Returned(op')[i]
       /\ Used(op') => index_map' = index_map
       /\ (op'.name \in {"read_email", "send_reply"}
              /\ The(op'.number) \notin DOMAIN index_map) =>
            /\ Failed(op')
            /\ op'.mail = << >>]_vars

C1_Witness ==
    /\ op.name = "read_email"
    /\ op.number = Some(2)
    /\ DOMAIN index_map = {1}
    /\ Failed(op)

\* C2: a list_emails call that returns an error leaves index_map as it was
\* before the call.
C2_FailedListingKeepsMap ==
    [][(op'.name = "list_emails" /\ Failed(op')) => index_map' = index_map]_vars

\* C3: send_reply(h) without a body succeeds only if a draft is pending for h;
\* otherwise it returns an error and nothing is sent. The pending draft is the
\* draft generated last: a read_email or regenerate_draft that returns a draft
\* for h makes it the pending draft of h, and no other call sets one.
C3_DraftSendCoupling ==
    [][/\ (op'.name = "send_reply" /\ op'.reply_body = None) =>
            IF last_number = op'.number /\ last_draft # None
            THEN ~Failed(op') => Sends(op') # {}
            ELSE Failed(op') /\ Sends(op') = {}
       /\ (op'.name \in {"read_email", "regenerate_draft"} /\ ~Failed(op')
              /\ op'.result.value.draft_reply # None) =>
            /\ last_number' = op'.number
            /\ last_draft' = op'.result.value.draft_reply
       /\ ~(op'.name \in {"read_email", "regenerate_draft"} /\ ~Failed(op')
              /\ op'.result.value.draft_reply # None) =>
            \/ last_number' = last_number /\ last_draft' = last_draft
            \/ last_number' = None /\ last_draft' = None]_vars

C3_Witness ==
    /\ op.name = "send_reply"
    /\ op.number = Some(2)
    /\ op.reply_body = None
    /\ Failed(op)
    /\ 2 \in DOMAIN index_map
    /\ last_number = Some(1)

\* C4: a send_reply(h) that succeeds, with or without a body, clears the
\* pending draft if it belonged to h and leaves a draft pending for another
\* handle as it is.
C4_SendClearsOwnDraft ==
    [][(op'.name = "send_reply" /\ ~Failed(op')) =>
            IF last_number = op'.number
            THEN last_number' = None /\ last_draft' = None
            ELSE last_number' = last_number /\ last_draft' = last_draft]_vars

C4_Witness ==
    /\ op.name = "send_reply"
    /\ op.number = Some(2)
    /\ ~Failed(op)
    /\ last_number = Some(1)
    /\ last_draft # None

\* C5: a list_emails that succeeds leaves none of the earlier handles on its
\* earlier message: each is gone or maps to what the new listing put there;
\* a later read_email(h) returns an error without a fetch or fetches the message
\* index_map assigns to h, and no call in between changes index_map.
C5_ListingResetsHandles ==
    [][/\ Listed(op') =>
            \A h \in DOMAIN index_map :
                \/ h \notin DOMAIN index_map'
                \/ /\ h \in DOMAIN Returned(op')
                   /\ index_map'[h] = Returned(op')[h]
       /\ Used(op') => index_map' = index_map
       /\ op'.name = "read_email" =>
            \/ Failed(op') /\ Fetched(op') = {}
            \/ /\ The(op'.number) \in DOMAIN index_map
               /\ Fetched(op') = {index_map[The(op'.number)]}]_vars

\* handle 2 was read as m2 under one listing; handle 1 is m2 under a later one
C5_Witness ==
    /\ op.name = "read_email"
    /\ op.number = Some(1)
    /\ ~Failed(op)
    /\ op.result.value.id = "m2"
    /\ 2 \in DOMAIN email_cache
    /\ email_cache[2].from = MAILBOX["m2"].from
    /\ index_map = <<"m2">>

-----------------------------------------------------------------------------
(* Claims about GmailAgent.chat, checked under Spec.                       *)

\* chat has returned or raised
TurnOver == pc = "idle" /\ turn.outcome \in {"text", "raised"}

\* the messages the turn has appended after the user message
Appended ==
    SubSeq(conversation_history, turn.start + 2, Len(conversation_history))

\* the tool messages of the turn, in order
ToolMessages == SelectSeq(Appended, LAMBDA m : m.role = "tool")

AllExecuted ==
    /\ turn.executed = [i \in 1..Len(turn.first_calls) |-> i]
    /\ Len(ToolMessages) = Len(turn.first_calls)

\* C6: a turn whose first response carries tool calls executes each of them
\* once and in order, appends one tool message per call and calls the model
\* exactly twice; a turn without tool calls calls it exactly once.
C6_OneRoundDispatch ==
    TurnOver =>
        IF turn.first_calls # << >>
        THEN AllExecuted /\ turn.llm_calls = 2
        ELSE turn.llm_calls = 1

\* C7: the final model call of a turn ends the turn: whatever tool calls its
\* response carries, the step leaves the MailboxSession and the record of its
\* last call as they were and chat returns or raises.
C7_FinalResponseToolsDropped ==
    [][pc = "final" =>
            /\ mailbox' = mailbox
            /\ op' = op
            /\ pc' = "idle"
            /\ tool_calls' = << >>]_vars

C7_Witness ==
    /\ TurnOver
    /\ turn.outcome = "text"
    /\ turn.llm_calls = 2
    /\ turn.final_calls # << >>
    /\ DOMAIN index_map = {1, 2}

\* the call chat was at when it raised before the final model call
RaisedAt == Len(turn.executed) + 1

RaisedInLoop ==
    /\ TurnOver
    /\ turn.outcome = "raised"
    /\ turn.llm_calls = 1
    /\ turn.first_calls # << >>

\* C8: a tool call whose arguments are an unparsable string never fails the
\* turn, for each tool of the menu.
C8_UnparsableArgsNeverFail ==
    RaisedInLoop => turn.first_calls[RaisedAt].enc # "garbage"

\* C9: once a call of an unknown tool name has produced its error result, the
\* remaining tool calls run and the follow-up model call is made.
C9_UnknownToolDoesNotAbort ==
    (/\ TurnOver
     /\ \E i \in DOMAIN turn.executed :
            /\ turn.first_calls[i].name \notin DOMAIN tool_functions
            /\ ToolMessages[i].content =
                  <<Error(<<"Unknown function:", turn.first_calls[i].name>>)>>)
        => AllExecuted /\ turn.llm_calls = 2

\* C10: once a MailboxSession operation called by the loop has returned an
\* error, the error is in the history as a tool message, every later tool call
\* of the response is executed and the follow-up model call is made.
C10_ToolFailureDoesNotAbort ==
    (/\ TurnOver
     /\ \E i \in DOMAIN turn.executed :
            /\ turn.first_calls[i].name \in DOMAIN tool_functions
            /\ Failed([result |-> ToolMessages[i].content[1]]))
        => AllExecuted /\ turn.llm_calls = 2

\* C11: a turn is ended by a fault only at its final (second) model call:
\* every turn that raised had executed its tool calls and raised at the
\* follow-up call.
C11_OnlyFinalCallFaultTerminal ==
    (TurnOver /\ turn.outcome = "raised") => turn.llm_calls = 2

\* C15: no turn sends a generated draft in the turn that generated it: no
\* send_email_reply call that succeeds without a reply body comes after a
\* read_email call of the same response that succeeded for the same handle.
C15_NoSendInGeneratingTurn ==
    ~ \E i, k \in DOMAIN turn.executed :
        /\ i < k
        /\ turn.first_calls[i].name = "read_email"
        /\ ~Failed([result |-> ToolMessages[i].content[1]])
        /\ turn.first_calls[k].name = "send_email_reply"
        /\ ~Failed([result |-> ToolMessages[k].content[1]])
        /\ ParseArguments(turn.first_calls[k]).reply_body = None
        /\ ParseArguments(turn.first_calls[k]).email_number =
              ParseArguments(turn.first_calls[i]).email_number

-----------------------------------------------------------------------------
(* Further claims about the MailboxSession, checked under SpecMailbox.     *)

\* C12: send_reply always returns a result; when it returns an error after
\* reaching the provider (a fault while fetching, building or sending), the
\* session, and with it the pending draft, is left as it was.
C12_SendFaultKeepsDraft ==
    [][op'.name = "send_reply" =>
            /\ Failed(op') \/ "sent_to" \in DOMAIN op'.result.value
            /\ Failed(op') =>
                  /\ last_draft' = last_draft
                  /\ last_number' = last_number
                  /\ mailbox' = mailbox]_vars

\* a send without a body met a fault at messages().send; its draft is pending
C12_Witness ==
    /\ op.name = "send_reply"
    /\ op.reply_body = None
    /\ Failed(op)
    /\ Len(op.mail) = 2
    /\ last_number = op.number
    /\ last_draft # None

\* C14: in every reachable state the keys of index_map are 1..n for some
\* n >= 0, whatever calls were made and whether they failed.
C14_HandlesContiguous ==
    DOMAIN index_map = 1..Cardinality(DOMAIN index_map)

\* a listing of two messages failed at its second metadata get
C14_Witness ==
    /\ op.name = "list_emails"
    /\ Failed(op)
    /\ Len(Returned(op)) = 2
    /\ DOMAIN index_map = {1}

\* the bodies of the replies the call handed to messages().send
SentBodies(o) == {m.body : m \in UNION Sends(o)}

\* C16: a send_reply that succeeds with a reply body that is empty or not
\* given sends the pending draft as the body, and no reply with an empty body
\* is ever sent.
C16_EmptyBodyUsesDraft ==
    [][(op'.name = "send_reply" /\ ~Failed(op')) =>
            /\ Falsy(op'.reply_body) =>
                  /\ last_draft # None
                  /\ SentBodies(op') = last_draft
            /\ << >> \notin SentBodies(op')]_vars

\* C17: a read_email(h) that succeeds writes {from, subject, body} of the
\* message of h under h in email_cache and leaves the other entries and
\* index_map; if it returns a draft, that draft becomes the pending draft of h,
\* and if it returns none the pending draft is left exactly as it was.
C17_ReadFrame ==
    [][(op'.name = "read_email" /\ ~Failed(op')) =>
            LET h == The(op'.number)
                id == index_map[h]
            IN /\ email_cache' =
                     DictSet(email_cache, h,
                             [from |-> MAILBOX[id].from,
                              subject |-> MAILBOX[id].subject,
                              body |-> extract_email_body(MAILBOX[id].payload,
                                                          max_length)])
               /\ index_map' = index_map
               /\ IF op'.result.value.draft_reply # None
                  THEN /\ last_number' = Some(h)
                       /\ last_draft' = op'.result.value.draft_reply
                  ELSE /\ last_number' = last_number
                       /\ last_draft' = last_draft]_vars

\* a read without a draft while the draft of another handle is pending
C17_Witness ==
    /\ op.name = "read_email"
    /\ ~Failed(op)
    /\ op.result.value.draft_reply = None
    /\ last_number # None
    /\ last_number # op.number
    /\ The(op.number) \in DOMAIN email_cache

\* the drafts the generator can return for a cache entry and a tone
\* what read_email caches for a message of the mailbox
CachedFor(id) ==
    [from |-> MAILBOX[id].from, subject |-> MAILBOX[id].subject,
     body |-> extract_email_body(MAILBOX[id].payload, max_length)]

DraftsFor(cached, tone) ==
    {generate_draft(cached.from, cached.subject, cached.body, tone, llm) :
        llm \in DraftReplies}

\* C18: regenerate_draft(h) returns an error and changes nothing when
\* email_cache has no entry for h, and entries are written by read_email
\* only; with an entry it calls no Mail Capability operation, generates a draft
\* from the cached {from, subject, body} and makes it the pending draft of h.
C18_RegenerateNeedsCache ==
    [][/\ op'.name = "regenerate_draft" =>
            LET h == The(op'.number) IN
            IF h \notin DOMAIN email_cache
            THEN /\ Failed(op')
                 /\ mailbox' = mailbox
                 /\ op'.mail = << >>
            ELSE /\ ~Failed(op')
                 /\ op'.mail = << >>
                 /\ index_map' = index_map
                 /\ email_cache' = email_cache
                 /\ last_number' = Some(h)
                 /\ last_draft' = op'.result.value.draft_reply
                 /\ The(last_draft') \in
                       DraftsFor(email_cache[h], The(op'.result.value.tone))
       /\ (\E h \in DOMAIN email_cache' :
               h \notin DOMAIN email_cache \/ email_cache'[h] # email_cache[h]) =>
            /\ op'.name = "read_email"
            /\ ~Failed(op')]_vars

\* a draft regenerated with tone professional for a handle never listed again
C18_Witness ==
    /\ op.name = "regenerate_draft"
    /\ ~Failed(op)
    /\ op.result.value.tone = Some("professional")
    /\ last_number = op.number
    /\ op.mail = << >>

\* C19: list_emails leaves email_cache and the pending draft as they were,
\* whether it succeeds or fails; a regenerate_draft(h) after a listing that
\* gave h to another message succeeds and drafts from the cached message.
C19_ListingKeepsCache ==
    [][/\ op'.name = "list_emails" =>
            /\ email_cache' = email_cache
            /\ last_draft' = last_draft
            /\ last_number' = last_number
       /\ (op'.name = "regenerate_draft"
              /\ The(op'.number) \in DOMAIN email_cache
              /\ The(op'.number) \in DOMAIN index_map
              /\ MAILBOX[index_map[The(op'.number)]].subject #
                    email_cache[The(op'.number)].subject) =>
            /\ ~Failed(op')
            /\ The(op'.result.value.draft_reply) \in
                  DraftsFor(email_cache[The(op'.number)],
                            The(op'.result.value.tone))
            /\ The(op'.result.value.draft_reply) \notin
                  DraftsFor(CachedFor(index_map[The(op'.number)]),
                            The(op'.result.value.tone))]_vars

\* handle 1 was read as m1, a later listing gave it to m2, and the draft
\* regenerated for 1 is about m1
C19_Witness ==
    /\ op.name = "regenerate_draft"
    /\ op.number = Some(1)
    /\ ~Failed(op)
    /\ 1 \in DOMAIN index_map
    /\ index_map[1] = "m2"
    /\ email_cache[1].subject = MAILBOX["m1"].subject
    /\ last_draft \in {Some(d) : d \in DraftsFor(email_cache[1], "normal")}

-----------------------------------------------------------------------------
(* The end-to-end scenario, checked under SpecScenario.                    *)

\* C13: with three messages listed, a read_email(2) with tone friendly that
\* succeeds returns a draft ending in the friendly signature, caches handle 2
\* and makes the draft pending for 2; a send_reply(2) without a body that
\* succeeds sends that draft and clears it; a send_reply(2) without a body
\* right after a successful one, or with no draft pending, returns an error
\* and sends nothing.
C13_DraftSentAtMostOnce ==
    [][/\ (op'.name = "read_email" /\ ~Failed(op')) =>
            /\ op'.result.value.draft_reply # None
            /\ LET draft == The(op'.result.value.draft_reply) IN
                  draft[Len(draft)] = tone_configs["friendly"].signature
            /\ 2 \in DOMAIN email_cache'
            /\ last_number' = Some(2)
            /\ last_draft' = op'.result.value.draft_reply
       /\ (op'.name = "send_reply" /\ ~Failed(op')) =>
            /\ last_draft # None
            /\ SentBodies(op') = last_draft
            /\ last_draft' = None
            /\ last_number' = None
       /\ (op'.name = "send_reply"
              /\ (last_draft = None \/ (op.name = "send_reply" /\ ~Failed(op)))) =>
            /\ Failed(op')
            /\ Sends(op') = {}]_vars

\* the second send of the scenario: handle 2 was read and its draft is gone
C13_Witness ==
    /\ op.name = "send_reply"
    /\ op.number = Some(2)
    /\ Failed(op)
    /\ op.mail = << >>
    /\ DOMAIN index_map = {1, 2, 3}
    /\ 2 \in DOMAIN email_cache
    /\ last_draft = None

-----------------------------------------------------------------------------
(* GmailAgent.reset, checked under SpecReset.                              *)

LookupErrors ==
    {<<"Invalid email number", "Please list emails first.">>,
     <<"Email not found in cache", "Please read the email first.">>}

\* C20: reset leaves conversation_history, index_map, email_cache and the
\* pending draft all empty in one step, whatever the state before (so a
\* second reset changes nothing, and a reset of a fresh agent succeeds); the
\* history is never emptied while the session is not; the next read_email,
\* send_reply or regenerate_draft returns a lookup error for its handle and
\* reaches no capability.
C20_ResetClearsAll ==
    [][/\ Reset =>
            /\ op'.name = "clear"
            /\ ~Failed(op')
            /\ conversation_history' = << >>
            /\ Session' = NewSession
            /\ clear(Session') = Session'
            /\ pc' = "idle"
       /\ (conversation_history # << >> /\ conversation_history' = << >>) =>
            Session' = NewSession
       /\ (AfterReset /\ op'.name \in {"read_email", "send_reply", "send_email_reply",
                                         "regenerate_draft"}) =>
            /\ Failed(op')
            /\ The(op'.result.error) \in LookupErrors
            /\ op'.mail = << >>
            /\ op'.llm = 0
            /\ mailbox' = mailbox]_vars

\* a regenerate_draft right after a reset found no cache entry
C20_Witness ==
    /\ op.name = "regenerate_draft"
    /\ Failed(op)
    /\ conversation_history = << >>
    /\ Session = NewSession

-----------------------------------------------------------------------------
(* Claims about several turns of one agent, checked under SpecTurns.       *)

IsPrefix(s, t) == Len(s) <= Len(t) /\ SubSeq(t, 1, Len(s)) = s

\* C21: within a session the conversation history is append-only: every step
\* of the agent that is not a reset (a chat turn that returns, a turn that
\* raises, a tool's mailbox operation) leaves the earlier history as a
\* prefix of the later one; no message is reordered, changed or removed.
\* The OAuth callback does not touch the history of the agent it replaces:
\* it starts a new session.
C21_HistoryAppendOnly ==
    [][Reset \/ AuthCallback
       \/ IsPrefix(conversation_history, conversation_history')]_vars

\* a second turn has raised on top of the messages of a first turn that ran
\* a tool
C21_Witness ==
    /\ turn.outcome = "raised"
    /\ turn.start >= 4
    /\ conversation_history[3].role = "tool"
    /\ Len(conversation_history) > turn.start

-----------------------------------------------------------------------------
(* Claims about the agent next to the /emails endpoints, checked under     *)
(* SpecReset. No handler of app/main.py awaits inside a session operation, *)
(* so a handler runs from its guard pc = "idle" to its return in one step. *)

-----------------------------------------------------------------------------
(* Claims about the draft generator, checked under SpecDraft.              *)

\* the draft a regenerate_draft returned, the text before its signature
\* and the subject it was written for
Drafted == op.name = "regenerate_draft" /\ ~Failed(op)
DraftOf(o) == The(o.result.value.draft_reply)
DraftBody(o) == SubSeq(DraftOf(o), 1, Len(DraftOf(o)) - 2)
SignatureOf(tone) == tone_configs[IF tone \in Tones THEN tone ELSE "normal"].signature

\* C23: for every tone and every outcome of the model call (text, empty
\* text, fault) the draft ends with a blank line followed by the signature
\* of the tone, after a text that does not end in whitespace; a tone outside
\* normal, friendly, professional gets the instruction, the signature and
\* the temperature of normal.
C23_ToneSignature ==
    Drafted =>
        LET d == DraftOf(op)
            n == Len(d)
        IN
        /\ n >= 3
        /\ d[n] = SignatureOf(op.tone)
        /\ d[n - 1] = "\n\n"
        /\ d[n - 2] \notin Whitespace
        /\ op.tone \notin Tones =>
              /\ d[n] = tone_configs["normal"].signature
              /\ op.prompt.instruction = tone_configs["normal"].instruction
              /\ op.prompt.temperature = tone_configs["normal"].temperature

\* the model wrote a text signed Ayaan that is cleaned to nothing but "Hi",
\* for a tone outside the table
C23_Witness ==
    /\ Drafted
    /\ op.tone = "casual"
    /\ op.reply # None
    /\ Len(The(op.reply)) = MaxReply
    /\ The(op.reply)[MaxReply] = "Ayaan"
    /\ DraftBody(op) = <<"Hi">>

\* C24: when the model call raises or returns an empty or whitespace-only
\* text, regenerate_draft still returns: the draft is the fallback sentence
\* that names the subject, followed by the signature of the tone, and it is
\* the pending draft of the handle.
C24_FallbackDraft ==
    (Drafted /\ (op.reply = None \/ AllWhitespace(The(op.reply)))) =>
        LET sentence == <<"Thank you for your email regarding">>
                        \o email_cache[1].subject
                        \o <<"I will review and respond shortly.">>
        IN
        /\ DraftOf(op) = sentence \o <<"\n\n", SignatureOf(op.tone)>>
        /\ last_draft = Some(DraftOf(op))
        /\ last_number = Some(1)

\* the model returned nothing but line breaks for the tone professional
C24_Witness ==
    /\ Drafted
    /\ op.tone = "professional"
    /\ op.reply # None
    /\ The(op.reply) # << >>
    /\ AllWhitespace(The(op.reply))
    /\ last_draft = Some(DraftOf(op))

Names == NameStarts \cup {"[Your Name]"}

\* the model's text ends with a line that is a phrase of the closing
\* library, or with such a line followed by a name line
EndsWithClosing(t) ==
    LET u == Strip(t)
        n == Len(u)
    IN
    \/ /\ n >= 3
       /\ u[n] \in Closings
       /\ u[n - 1] = "\n"
    \/ /\ n >= 5
       /\ u[n] \in Names
       /\ u[n - 1] = "\n"
       /\ u[n - 2] \in Closings
       /\ u[n - 3] = "\n"

\* C25: for every model text that ends with a line holding a closing phrase
\* of the library, in any letter case, optionally followed by a name line,
\* the text before the signature of the draft does not end with a closing
\* phrase or a name.
C25_ClosingRemoved ==
    (Drafted /\ op.reply # None /\ EndsWithClosing(The(op.reply))) =>
        LET b == DraftBody(op) IN
        b[Len(b)] \notin Closings \cup Names

-----------------------------------------------------------------------------
(* Claims about extract_email_body, checked under SpecBody.                *)

Extracted == op.name = "extract_email_body"

\* the text/plain parts below parts, depth first through the multipart parts
RECURSIVE PlainParts(_)
PlainParts(parts) ==
    IF parts = << >> THEN << >>
    ELSE LET part == Head(parts) IN
         (IF part.mimeType = "text/plain" THEN <<part>>
          ELSE IF IsMultipart(part) THEN PlainParts(part.parts)
          ELSE << >>) \o PlainParts(Tail(parts))

RECURSIVE Yields(_)
Yields(parts) ==
    IF parts = << >> THEN << >>
    ELSE LET part == Head(parts) IN
         (IF IsMultipart(part)
          THEN IF part.data # << >> THEN <<part.data>> ELSE Yields(part.parts)
          ELSE IF part.mimeType = "text/plain" /\ part.data # << >>
          THEN <<part.data>>
          ELSE << >>) \o Yields(Tail(parts))

-----------------------------------------------------------------------------
(* A claim about listings without messages, checked under SpecMailbox.     *)

\* C27: a list_emails for which the provider returns no message is not an
\* error: it returns an empty emails list with an informational message and
\* leaves index_map empty (the cache and the draft stay); with an empty
\* index_map read_email and send_reply return the lookup error for every
\* handle, the earlier ones included, without calling the provider.
C27_EmptyListing ==
    [][/\ (op'.name = "list_emails" /\ ~Failed(op') /\ Returned(op') = << >>) =>
            /\ op'.result.value.emails = << >>
            /\ op'.result.value.message # None
            /\ index_map' = EmptyDict
            /\ <<last_draft', last_number', email_cache'>> =
                  <<last_draft, last_number, email_cache>>
       /\ (index_map = EmptyDict /\ op'.name \in {"read_email", "send_reply"}) =>
            /\ op'.result.error =
                  Some(<<"Invalid email number", "Please list emails first.">>)
            /\ op'.mail = << >>
            /\ mailbox' = mailbox]_vars

\* a handle that was read before the empty listing is now a lookup error
C27_Witness ==
    /\ op.name = "read_email"
    /\ Failed(op)
    /\ index_map = EmptyDict
    /\ The(op.number) \in DOMAIN email_cache

-----------------------------------------------------------------------------
(* A claim about the end of a chat turn, checked under SpecLive.           *)

\* the tool calls executed so far are calls of the first response, each at
\* most once and in order
ExecutedOnce ==
    /\ \A i \in DOMAIN turn.executed : turn.executed[i] \in DOMAIN turn.first_calls
    /\ \A i, j \in DOMAIN turn.executed : i < j => turn.executed[i] < turn.executed[j]

\* C28: provided every capability call returns, every chat turn ends: it
\* returns text or raises after at most two model calls and at most one
\* execution of each tool call of the first response; the tool calls of a
\* later response are never iterated over.
C28_TurnTerminates ==
    /\ [](/\ turn.llm_calls <= 2
          /\ ExecutedOnce
          /\ pc = "tools" => tool_calls = turn.first_calls
          /\ turn.final_calls # << >> => pc = "idle")
    /\ (pc # "idle") ~> (pc = "idle" /\ turn.outcome \in {"text", "raised"})

\* a turn has returned text after two model calls and one execution of each
\* tool call, its final response carrying a tool call that was not run
C28_Witness ==
    /\ pc = "idle"
    /\ turn.outcome = "text"
    /\ turn.llm_calls = 2
    /\ turn.executed = [i \in 1..MaxCallsReset |-> i]
    /\ turn.final_calls # << >>

-----------------------------------------------------------------------------
(* A claim about the validation of requests, checked under SpecApi.        *)

\* C29: a request to read, regenerate or reply that carries a tone outside
\* normal, friendly, professional or a handle that is not a positive integer
\* is answered with an error and leaves the session as it was.
C29_InvalidRejected ==
    [][(/\ Used(op')
        /\ \/ The(op'.number) < 1
           \/ op'.tone # None /\ The(op'.tone) \notin Tones)
       => (Failed(op') /\ mailbox' = mailbox)]_vars

-----------------------------------------------------------------------------
(* A claim about the subject and the thread of a reply, checked under      *)
(* SpecScenario.                                                           *)

SubjectTokens == {"Re:", "RE:", "rE:", "Re", "Hello"}
SubjectInputs == UNION {[1..k -> SubjectTokens] : k \in {0, 1, 2}}

\* the subject starts with "re:" in some letter case
RePrefixed(subject) ==
    subject # << >> /\ subject[1] \in {"Re:", "RE:", "rE:", "re:"}

\* C30: the subject of a reply is the original subject if that starts with
\* "re:" in any letter case, else "Re: " and the original subject, so that
\* the rule applied twice gives what it gives once; the subject in the
\* result of a send_reply that succeeds is the subject of the message that
\* was sent; and the sent message carries the thread id of the original
\* whenever the original has one.
C30_ReplySubject ==
    [][(op'.name = "send_reply" /\ ~Failed(op')) =>
          LET orig == MAILBOX[index_map[The(op'.number)]]
              sent == CHOOSE m \in UNION Sends(op') : TRUE
          IN
          /\ Cardinality(Sends(op')) = 1
          /\ sent.subject = IF RePrefixed(orig.subject) THEN orig.subject
                            ELSE <<"Re:">> \o orig.subject
          /\ op'.result.value.subject = sent.subject
          /\ sent.threadId = orig.threadId
          /\ \A subject \in SubjectInputs :
                LET once == create_reply_message("a", subject, << >>, None).subject IN
                /\ once = IF RePrefixed(subject) THEN subject ELSE <<"Re:">> \o subject
                /\ create_reply_message("a", once, << >>, None).subject = once]_vars

\* a reply went out for a message in a thread whose subject starts with "Re:"
C30_Witness ==
    /\ op.name = "send_reply"
    /\ ~Failed(op)
    /\ index_map[2] = "m2"
    /\ op.result.value.subject = <<"Re:", "Invoice">>
    /\ \E m \in UNION Sends(op) : m.threadId = Some("t2")

-----------------------------------------------------------------------------
(* Claims about the order and the effects of the tool calls of a turn,     *)
(* checked under Spec.                                                     *)

\* the step runs the tool call at position tc of the response
Executes(name) ==
    /\ pc = "tools"
    /\ tc' = tc + 1
    /\ tool_calls[tc].name = name

\* C31: the tool calls of one model response run one after the other in the
\* order of the response against the same session, each on the state the
\* earlier ones left: a read_email resolves its handle through the index_map
\* as it is when the call runs, so through the one a list_emails of the same
\* response built, and a send_email_reply without a body sends the draft
\* that is pending when the call runs, so the one a read_email of the same
\* response generated.
C31_SequentialTools ==
    [][/\ (pc = "tools" /\ tc' = tc + 1) =>
              turn'.executed = Append(turn.executed, tc)
       /\ Executes("read_email") =>
              IF 1 \in DOMAIN index_map
              THEN Fetched(op') = {index_map[1]}
              ELSE Failed(op') /\ op'.mail = << >>
       /\ Executes("send_email_reply") =>
              IF 1 \in DOMAIN index_map /\ ~NoDraftFor(Session, 1)
              THEN /\ Fetched(op') = {index_map[1]}
                   /\ SentBodies(op') \subseteq {The(last_draft)}
                   /\ ~Failed(op') => SentBodies(op') = {The(last_draft)}
              ELSE Failed(op') /\ op'.mail = << >>]_vars

\* one response listed, read handle 1 and sent the draft: the session was
\* empty when the turn began
C31_Witness ==
    /\ turn.first_calls = <<ToolCall("list_emails", "dict", NoKw),
                            ToolCall("read_email", "dict", Kw(Some(1), None, None)),
                            ToolCall("send_email_reply", "dict", Kw(Some(1), None, None))>>
    /\ turn.executed = <<1, 2, 3>>
    /\ turn.start = 0
    /\ op.name = "send_email_reply"
    /\ ~Failed(op)
    /\ SentBodies(op) # {}

-----------------------------------------------------------------------------
(* Claims about the pending draft and the frame of the session methods,    *)
(* checked under SpecMailbox.                                              *)

\* the drafts the generator can return, in any tone, for the message with
\* this id
DraftsOfMessage(id) == UNION {DraftsFor(CachedFor(id), tone) : tone \in Tones}

\* C32: when send_reply(h) without a reply body succeeds, the body that is
\* sent is a draft generated from the content of the message index_map maps
\* h to at the time of the send, also when list_emails ran between the
\* generation of the draft and the send.
C32_DraftOfRepliedMessage ==
    [][(op'.name = "send_reply" /\ op'.reply_body = None /\ ~Failed(op')) =>
          SentBodies(op') \subseteq DraftsOfMessage(index_map[The(op'.number)])]_vars

\* C33: when read_email(h) returns an error because messages().get raises,
\* the session is as it was before the call: no cache entry is written, the
\* pending draft keeps its handle and its text, index_map is untouched, and
\* the model is not called.
C33_ReadFaultKeepsSession ==
    [][(op'.name = "read_email" /\ Failed(op') /\ op'.mail # << >>) =>
          /\ mailbox' = mailbox
          /\ Fetched(op') = {index_map[The(op'.number)]}
          /\ Sends(op') = {}
          /\ op'.llm = 0]_vars

\* the fetch of handle 2 failed while a draft was pending for handle 1 and
\* handle 2 had no cache entry
C33_Witness ==
    /\ op.name = "read_email"
    /\ op.number = Some(2)
    /\ Failed(op)
    /\ op.mail # << >>
    /\ last_number = Some(1)
    /\ last_draft # None
    /\ DOMAIN email_cache = {1}

\* C39: the handle of a pending draft has an entry in email_cache; it need
\* not be a handle of index_map.
C39_DraftHandleCached ==
    last_number # None => The(last_number) \in DOMAIN email_cache

\* a draft is pending for handle 2, which the last listing no longer has
C39_Witness ==
    /\ last_number = Some(2)
    /\ last_draft # None
    /\ 2 \in DOMAIN email_cache
    /\ DOMAIN index_map = {1}

-----------------------------------------------------------------------------
(* The hosted session: the /emails endpoints of app/main.py and the chat   *)
(* turns of the agent work on one MailboxSession. The endpoints list the   *)
(* three-message mailbox, read handle 2 with tone friendly and send for    *)
(* handle 2 without a body; a turn carries at most one tool call.          *)

ChatBeginOne == ChatBegin /\ Len(tool_calls') <= 1

NextHosted ==
    \/ ScenarioList \/ ScenarioRead \/ ScenarioSend
    \/ ChatBeginOne \/ ChatTool \/ ChatFinal \/ Reset

SpecHosted == Init /\ [][NextHosted]_vars

\* the session as the step leaves it
SessionAfter ==
    [index_map |-> index_map', last_draft |-> last_draft',
     last_number |-> last_number', email_cache |-> email_cache']

\* C34: a read_email tool call always generates a draft, with tone normal,
\* and overwrites the pending draft: after a read_email(h) tool call that
\* succeeds the pending draft is the new draft and its handle is h, whatever
\* was pending before, so that no other handle has a draft that send_reply
\* would send without an explicit body.
C34_ToolReadOverwritesDraft ==
    [][(Executes("read_email") /\ ~Failed(op')) =>
          LET h == The(tool_calls[tc].kw.email_number) IN
          /\ op'.llm = 1
          /\ op'.result.value.tone = Some("normal")
          /\ last_number' = Some(h)
          /\ last_draft' = op'.result.value.draft_reply
          /\ The(last_draft') \in DraftsFor(CachedFor(index_map[h]), "normal")
          /\ \A other \in Numbers \ {h} : NoDraftFor(SessionAfter, other)]_vars

\* /emails/read made a draft for handle 2, a read_email(1) tool call then
\* replaced it, and /emails/reply for handle 2 without a body found no draft
C34_Witness ==
    /\ turn.first_calls = <<ToolCall("read_email", "dict", Kw(Some(1), None, None))>>
    /\ turn.executed = <<1>>
    /\ 2 \in DOMAIN email_cache
    /\ last_number = Some(1)
    /\ op.name = "send_reply"
    /\ op.number = Some(2)
    /\ Failed(op)
    /\ op.mail = << >>

-----------------------------------------------------------------------------
(* Claims about the history between turns, checked under SpecTurns.        *)

UserPositions ==
    {i \in DOMAIN conversation_history : conversation_history[i].role = "user"}

\* C35: while chat is not executing, the history is empty or ends with an
\* assistant message that is text, every user message is followed by an
\* assistant message before the next user message, and a turn that failed
\* has left the history as it was before the turn.
C35_HistoryBetweenTurns ==
    pc = "idle" =>
        /\ \/ conversation_history = << >>
           \/ LET last == conversation_history[Len(conversation_history)] IN
              last.role = "assistant" /\ last.tool_calls = << >>
        /\ \A i, j \in UserPositions :
              i < j => \E k \in (i + 1)..(j - 1) :
                          conversation_history[k].role = "assistant"
        /\ turn.outcome = "raised" => Len(conversation_history) = turn.start

\* the call the step makes ends in a lookup error: its handle is not in
\* index_map (read_email, send_reply), no draft is pending for its handle
\* (send_reply without a body) or its handle has no cache entry
\* (regenerate_draft)
LookupFails ==
    LET h == The(op'.number) IN
    \/ op'.name \in {"read_email", "send_reply"} /\ h \notin DOMAIN index_map
    \/ op'.name = "send_reply" /\ op'.reply_body = None /\ NoDraftFor(Session, h)
    \/ op'.name = "regenerate_draft" /\ h \notin DOMAIN email_cache

\* C36: a call that ends in a lookup error returns an error without calling
\* the Mail Capability or the model, and leaves index_map, email_cache and the
\* pending draft as they were.
C36_LookupErrorNoEffect ==
    [][(Used(op') /\ LookupFails) =>
          /\ Failed(op')
          /\ op'.mail = << >>
          /\ op'.llm = 0
          /\ mailbox' = mailbox]_vars

\* send_reply without a body for a listed handle that has no draft, while a
\* draft is pending for another handle
C36_Witness ==
    /\ op.name = "send_reply"
    /\ op.reply_body = None
    /\ op.number = Some(2)
    /\ 2 \in DOMAIN index_map
    /\ Failed(op)
    /\ op.mail = << >>
    /\ last_number = Some(1)
    /\ last_draft # None
    /\ email_cache # EmptyDict

\* C37: last_draft is None exactly when last_number is None, and a draft
\* that is set is a text that is not empty.
C37_DraftAndNumberTogether ==
    /\ last_draft = None <=> last_number = None
    /\ last_draft # None => The(last_draft) # << >>

\* a draft is pending for handle 2 after regenerate_draft stored it
C37_Witness ==
    /\ op.name = "regenerate_draft"
    /\ ~Failed(op)
    /\ last_number = Some(2)
    /\ last_draft # None

-----------------------------------------------------------------------------
(* Claims about the hosted session, checked under SpecHosted.              *)

\* the step is a chat turn whose first response carries no tool call
AnswersInText ==
    /\ pc = "idle"
    /\ conversation_history' # conversation_history
    /\ turn'.outcome = "text"
    /\ turn'.first_calls = << >>

\* C38: a chat turn whose first model response carries no tool call makes
\* no Mail Capability call and leaves the MailboxSession as it was; it only
\* appends the user message and the assistant's text to the history, after
\* one model call.
C38_TextTurnKeepsSession ==
    [][AnswersInText =>
          /\ mailbox' = mailbox
          /\ op' = op
          /\ turn'.llm_calls = 1
          /\ turn'.executed = << >>
          /\ pc' = "idle"
          /\ conversation_history' =
                conversation_history \o
                   <<Message("user", <<"user text">>, << >>),
                     Message("assistant", <<"answer">>, << >>)>>]_vars

\* the last turn was answered in text, in a session that holds a listing, a
\* cache entry and a pending draft
C38_Witness ==
    /\ TurnOver
    /\ turn.outcome = "text"
    /\ turn.first_calls = << >>
    /\ Len(conversation_history) = 2
    /\ DOMAIN index_map = {1, 2, 3}
    /\ email_cache # EmptyDict
    /\ last_number = Some(2)
    /\ op.name = "read_email"

-----------------------------------------------------------------------------
(* The hosting application, app/main.py: which MailboxSession and which    *)
(* mail service the module state and the agent hold. op is the AppState    *)
(* together with what gmail_client keeps: objects are numbered in the      *)
(* order of their construction, token says that token.json is there and    *)
(* valid, cached is the module global _gmail_service. A chat turn and a    *)
(* reset replace no object, so the session and the history stay out of     *)
(* this specification.                                                     *)

\* the objects of each kind one run constructs
MaxObjects == 3

\* class AppState: every attribute None
AppState(token) ==
    [name |-> "AppState", gmail_service |-> None, ollama_client |-> FALSE,
     mailbox |-> None, agent |-> None, token |-> token, cached |-> None,
     services |-> 0, sessions |-> 0]

InitApp ==
    /\ index_map = EmptyDict
    /\ last_draft = None
    /\ last_number = None
    /\ email_cache = EmptyDict
    /\ conversation_history = << >>
    /\ pc = "idle"
    /\ tool_calls = << >>
    /\ tc = 0
    /\ turn = NoTurn
    /\ \E token \in BOOLEAN : op = AppState(token)

\* get_gmail_service: the cached service, or a service that build() makes;
\* service is None when it raises
get_gmail_service(a, force_refresh, build_ok) ==
    IF a.cached # None /\ ~force_refresh
    THEN [app |-> a, service |-> a.cached]
    ELSE IF ~a.token \/ ~build_ok
    THEN [app |-> a, service |-> None]
    ELSE [app |-> [a EXCEPT !.services = a.services + 1,
                            !.cached = Some(a.services + 1)],
          service |-> Some(a.services + 1)]

\* state.mailbox = MailboxSession()
WithMailbox(a) ==
    [a EXCEPT !.sessions = a.sessions + 1, !.mailbox = Some(a.sessions + 1)]

\* state.agent = GmailAgent(ollama_client, state.gmail_service, state.mailbox)
WithAgent(a) ==
    [a EXCEPT !.agent = Some([gmail_service |-> The(a.gmail_service),
                              mailbox |-> The(a.mailbox)])]

CanBuild == op.services < MaxObjects /\ op.sessions < MaxObjects

Started == op.name # "AppState"

\* the startup of the application
lifespan ==
    /\ op.name = "AppState"
    /\ \E ollama \in BOOLEAN, build_ok \in BOOLEAN :
          LET a1 == [op EXCEPT !.name = "lifespan", !.ollama_client = ollama]
              got == IF a1.token THEN get_gmail_service(a1, FALSE, build_ok)
                     ELSE [app |-> a1, service |-> None]
              a2 == IF got.service = None THEN got.app
                    ELSE [got.app EXCEPT !.gmail_service = got.service]
              a3 == WithMailbox(a2)
          IN op' = IF a3.gmail_service # None /\ a3.ollama_client
                   THEN WithAgent(a3) ELSE a3
    /\ UNCHANGED <<index_map, last_draft, last_number, email_cache,
                   conversation_history, pc, tool_calls, tc, turn>>

\* POST /auth/callback: code_ok says that the code is exchanged for a token
auth_callback ==
    /\ Started
    /\ CanBuild
    /\ \E code_ok \in BOOLEAN, build_ok \in BOOLEAN :
          LET a0 == [op EXCEPT !.name = "auth_callback"]
              a1 == [a0 EXCEPT !.token = TRUE, !.cached = None]
              got == get_gmail_service(a1, TRUE, build_ok)
              a2 == [got.app EXCEPT !.gmail_service = got.service]
          IN op' = IF ~code_ok THEN a0
                   ELSE IF got.service = None THEN got.app
                   ELSE IF a2.ollama_client THEN WithAgent(WithMailbox(a2))
                   ELSE a2
    /\ UNCHANGED <<index_map, last_draft, last_number, email_cache,
                   conversation_history, pc, tool_calls, tc, turn>>

\* POST /auth/refresh: refreshed says that refresh_token() succeeds
refresh_auth_token ==
    /\ Started
    /\ CanBuild
    /\ \E refreshed \in BOOLEAN, build_ok \in BOOLEAN :
          LET a0 == [op EXCEPT !.name = "refresh_auth_token"]
              a1 == [a0 EXCEPT !.cached = None]
              got == get_gmail_service(a1, TRUE, build_ok)
          IN op' = IF ~refreshed \/ ~op.token THEN a0
                   ELSE IF got.service = None THEN got.app
                   ELSE [got.app EXCEPT !.gmail_service = got.service]
    /\ UNCHANGED <<index_map, last_draft, last_number, email_cache,
                   conversation_history, pc, tool_calls, tc, turn>>

\* DELETE /auth/token
delete_auth_token ==
    /\ Started
    /\ op' = [op EXCEPT !.name = "delete_auth_token", !.token = FALSE,
                        !.cached = None, !.gmail_service = None, !.agent = None]
    /\ UNCHANGED <<index_map, last_draft, last_number, email_cache,
                   conversation_history, pc, tool_calls, tc, turn>>

\* ensure_gmail_service: raised says that it ends in an HTTPException
ensure_gmail_service(a, build_ok) ==
    IF a.gmail_service # None THEN [app |-> a, raised |-> FALSE]
    ELSE IF ~a.token THEN [app |-> a, raised |-> TRUE]
    ELSE LET got == get_gmail_service(a, FALSE, build_ok) IN
         IF got.service = None THEN [app |-> got.app, raised |-> TRUE]
         ELSE LET a1 == WithMailbox([got.app EXCEPT !.gmail_service = got.service])
              IN [app |-> IF a1.ollama_client THEN WithAgent(a1) ELSE a1,
                  raised |-> FALSE]

\* POST /emails/list, /emails/read, /emails/reply: ensure_gmail_service(),
\* then the MailboxSession method
emails_endpoint ==
    /\ Started
    /\ CanBuild
    /\ \E build_ok \in BOOLEAN :
          op' = ensure_gmail_service([op EXCEPT !.name = "emails"], build_ok).app
    /\ UNCHANGED <<index_map, last_draft, last_number, email_cache,
                   conversation_history, pc, tool_calls, tc, turn>>

\* POST /agent/chat: ensure_gmail_service(), the agent is made if there is
\* none, then state.agent.chat
agent_chat ==
    /\ Started
    /\ CanBuild
    /\ \E build_ok \in BOOLEAN :
          LET e == ensure_gmail_service([op EXCEPT !.name = "agent_chat"], build_ok) IN
          op' = IF e.raised \/ e.app.agent # None \/ ~e.app.ollama_client
                THEN e.app
                ELSE WithAgent(e.app)
    /\ UNCHANGED <<index_map, last_draft, last_number, email_cache,
                   conversation_history, pc, tool_calls, tc, turn>>

\* POST /agent/reset: state.agent.reset() and state.mailbox.clear()
agent_reset ==
    /\ Started
    /\ op' = [op EXCEPT !.name = "agent_reset"]
    /\ UNCHANGED <<index_map, last_draft, last_number, email_cache,
                   conversation_history, pc, tool_calls, tc, turn>>

NextApp ==
    \/ lifespan \/ auth_callback \/ refresh_auth_token \/ delete_auth_token
    \/ emails_endpoint \/ agent_chat \/ agent_reset

SpecApp == InitApp /\ [][NextApp]_vars

\* C40: whenever the application has an agent, the agent works on the
\* MailboxSession and on the mail service the endpoints use:
\* state.agent.mailbox is state.mailbox and state.agent.gmail_service is
\* state.gmail_service, after any sequence of startup, auth callback, token
\* refresh, token deletion, ensure_gmail_service and chat requests.
C40_AgentSharesState ==
    (Started /\ op.agent # None) =>
        /\ Some(The(op.agent).mailbox) = op.mailbox
        /\ Some(The(op.agent).gmail_service) = op.gmail_service
====
